---- MODULE Spec2Model ----
(***************************************************************************)
(* Model of vpp6.py: Monte Carlo sizing of a battery portfolio for FCR.    *)
(*                                                                         *)
(* Units.  Power is in kW.  State of charge (SOC) is kept in tenths of a   *)
(* kWh so that the two per-slot SOC variations (1.2 kWh and 3.8 kWh) are   *)
(* integers.  Rates are fixed-point: SOC_DEGRADATION_PER_USE and           *)
(* TARGET_NET_BALANCE in units of 1e-4, probabilities in percent.          *)
(*                                                                         *)
(* Randomness.  Every np.random draw is an input of the action that makes  *)
(* it, taken from a small set of values the generator can return.          *)
(*                                                                         *)
(* Scale.  The portfolio-level figures (required power, slots per year,    *)
(* trials per estimate) are scaled down to the portfolios of               *)
(* PortfolioSizes; the per-asset figures are those of the source.          *)
(***************************************************************************)
EXTENDS Integers, Sequences, FiniteSets

\* ---------------------------------------------------------------- bounds
\* largest n_min passed to the search (n_min > n_max gives the empty range)
MaxNMin == 3
\* largest step passed to the search
MaxStep == 2
\* required FCR power (kW), 10_000 in the source
REQUIRED_POWER == 100
\* slots per year, 2190 in the source
N_SLOTS_YEAR == 2
\* n_trials passed by find_min_assets_annual, 100 in the source
N_TRIALS == 2

\* ------------------------------------------------------ program constants
ENERGY_HOURS == 4
POWER_MEAN == 100
SOC_MEAN == 600
\* percent
P_AVAILABLE_FCR == 70
\* units of 1e-4
SOC_DEGRADATION_PER_USE == 20
\* units of 1e-4
TARGET_NET_BALANCE == 5
\* percent
MIN_SUCCESS_RATE == 95
\* technical floor of a power rating (kW)
POWER_FLOOR == 20

\* SOC_RECHARGE_RATE * SOC_MEAN in tenths of a kWh (= 38, i.e. 3.8 kWh):
\* (0.002 * 0.70 + 0.0005) / (1 - 0.70) * 600
RechargeDelta ==
  ((SOC_DEGRADATION_PER_USE * P_AVAILABLE_FCR + TARGET_NET_BALANCE * 100) * SOC_MEAN)
    \div ((100 - P_AVAILABLE_FCR) * 1000)

\* SOC_DEGRADATION_PER_USE * SOC_MEAN in tenths of a kWh (= 12, i.e. 1.2 kWh)
DegradeDelta == (SOC_DEGRADATION_PER_USE * SOC_MEAN) \div 1000

\* ------------------------------------------------------------ random draws
\* np.random.normal(POWER_MEAN, POWER_STD): values before the clip (kW)
RawPowerDraws == {10, 80, 100}
\* np.random.normal(SOC_MEAN, SOC_STD): values before the clip (0.1 kWh)
RawSocDraws == {-100, 4000, 6000}
\* np.random.random(): percent
UniformDraws == {10, 70}

\* the portfolio sizes simulated
PortfolioSizes == 0..2

Assets(n) == 1..n
Vectors(n, S) == [Assets(n) -> S]

\* ---------------------------------------------------------- pure helpers
\* np.clip(x, lo, None)
Clip(x, lo) == IF x < lo THEN lo ELSE x

RECURSIVE SumOver(_, _)
\* np.sum(v[mask]) restricted to the index set I
SumOver(v, I) ==
  IF I = {} THEN 0
  ELSE LET i == CHOOSE j \in I : TRUE IN v[i] + SumOver(v, I \ {i})

\* np.sum(mask) of a boolean vector
CountTrue(mask) == Cardinality({i \in DOMAIN mask : mask[i]})

\* ------------------------------------------------------------- update_soc
update_soc_UsesPower(socs, powers, available_for_fcr) ==
  [i \in DOMAIN socs |->
     Clip(socs[i] + (IF available_for_fcr[i]
                        THEN -(powers[i] \div 10)
                        ELSE RechargeDelta), 0)]

update_soc_NoClip(socs, powers, available_for_fcr) ==
  [i \in DOMAIN socs |->
     socs[i] + (IF available_for_fcr[i] THEN -DegradeDelta ELSE RechargeDelta)]

update_soc(socs, powers, available_for_fcr) ==
  LET delta_soc == [i \in DOMAIN socs |->
                      IF available_for_fcr[i] THEN -DegradeDelta ELSE RechargeDelta]
      summed == [i \in DOMAIN socs |-> socs[i] + delta_soc[i]]
  IN [i \in DOMAIN socs |-> Clip(summed[i], 0)]

\* ------------------------------------------------------ simulate_fcr_slot
has_enough_soc_Strict(socs, powers) ==
  [i \in DOMAIN socs |-> socs[i] > powers[i] * ENERGY_HOURS * 10]

\* an asset's SOC covers ENERGY_HOURS hours at its power (0.1 kWh units)
has_enough_soc(socs, powers) ==
  [i \in DOMAIN socs |-> socs[i] >= powers[i] * ENERGY_HOURS * 10]

can_provide_fcr_of(available_for_fcr, enough) ==
  [i \in DOMAIN enough |-> available_for_fcr[i] /\ enough[i]]

slot_success_Strict(powers, can_provide) ==
  SumOver(powers, {i \in DOMAIN powers : can_provide[i]}) > REQUIRED_POWER

slot_success(powers, can_provide) ==
  SumOver(powers, {i \in DOMAIN powers : can_provide[i]}) >= REQUIRED_POWER

\* raw_powers and uniforms are the slot's two random vectors
simulate_fcr_slot(socs, raw_powers, uniforms) ==
  LET powers == [i \in DOMAIN socs |-> Clip(raw_powers[i], POWER_FLOOR)]
      available_for_fcr == [i \in DOMAIN socs |-> uniforms[i] < P_AVAILABLE_FCR]
      can_provide == can_provide_fcr_of(available_for_fcr, has_enough_soc(socs, powers))
  IN [success |-> slot_success(powers, can_provide),
      can_provide_fcr |-> can_provide,
      available_for_fcr |-> available_for_fcr,
      powers |-> powers]

\* the initial SOC draw of both year simulators
initial_socs(raw_socs) == [i \in DOMAIN raw_socs |-> Clip(raw_socs[i], 0)]

\* ---------------------------------------------------------- simulate_year
year_step_CountsEverySlot(socs_, success_count_, raw_powers, uniforms) ==
  LET r == simulate_fcr_slot(socs_, raw_powers, uniforms)
  IN [socs |-> update_soc(socs_, r.powers, r.can_provide_fcr),
      success_count |-> success_count_ + 1]

year_step_UsesAvailable(socs_, success_count_, raw_powers, uniforms) ==
  LET r == simulate_fcr_slot(socs_, raw_powers, uniforms)
  IN [socs |-> update_soc(socs_, r.powers, r.available_for_fcr),
      success_count |-> IF r.success THEN success_count_ + 1 ELSE success_count_]

\* one iteration of the slot loop of simulate_year
year_step(socs_, success_count_, raw_powers, uniforms) ==
  LET r == simulate_fcr_slot(socs_, raw_powers, uniforms)
  IN [socs |-> update_soc(socs_, r.powers, r.can_provide_fcr),
      success_count |-> IF r.success THEN success_count_ + 1 ELSE success_count_]

year_return_CountOnly(success_count_) == success_count_ >= 1

\* the value simulate_year returns: success_count / N_SLOTS_YEAR >= MIN_SUCCESS_RATE
year_return_value(success_count_) ==
  success_count_ * 100 >= MIN_SUCCESS_RATE * N_SLOTS_YEAR

\* -------------------------------------------- simulate_year_with_tracking
tracking_start_NoInitialRow(socs_) ==
  [socs |-> socs_,
   success_count |-> 0,
   soc_history |-> <<>>,
   fcr_power_history |-> <<>>,
   success_history |-> <<>>,
   available_history |-> <<>>,
   soc_ok_history |-> <<>>]

\* the locals of simulate_year_with_tracking before its first slot
tracking_start(socs_) ==
  [socs |-> socs_,
   success_count |-> 0,
   soc_history |-> <<socs_>>,
   fcr_power_history |-> <<>>,
   success_history |-> <<>>,
   available_history |-> <<>>,
   soc_ok_history |-> <<>>]

tracking_step_UsesAvailable(t, raw_powers, uniforms) ==
  LET r == simulate_fcr_slot(t.socs, raw_powers, uniforms)
      new_socs == update_soc(t.socs, r.powers, r.available_for_fcr)
  IN [socs |-> new_socs,
      success_count |-> IF r.success THEN t.success_count + 1 ELSE t.success_count,
      soc_history |-> Append(t.soc_history, new_socs),
      fcr_power_history |->
        Append(t.fcr_power_history,
               SumOver(r.powers, {i \in DOMAIN r.powers : r.can_provide_fcr[i]})),
      success_history |-> Append(t.success_history, r.success),
      available_history |-> Append(t.available_history, CountTrue(r.available_for_fcr)),
      soc_ok_history |->
        Append(t.soc_ok_history, CountTrue(has_enough_soc(new_socs, r.powers)))]

\* one iteration of the slot loop of simulate_year_with_tracking
tracking_step(t, raw_powers, uniforms) ==
  LET r == simulate_fcr_slot(t.socs, raw_powers, uniforms)
      new_socs == update_soc(t.socs, r.powers, r.can_provide_fcr)
  IN [socs |-> new_socs,
      success_count |-> IF r.success THEN t.success_count + 1 ELSE t.success_count,
      soc_history |-> Append(t.soc_history, new_socs),
      fcr_power_history |->
        Append(t.fcr_power_history,
               SumOver(r.powers, {i \in DOMAIN r.powers : r.can_provide_fcr[i]})),
      success_history |-> Append(t.success_history, r.success),
      available_history |-> Append(t.available_history, CountTrue(r.available_for_fcr)),
      \* evaluated on the SOC already updated for the next slot
      soc_ok_history |->
        Append(t.soc_ok_history, CountTrue(has_enough_soc(new_socs, r.powers)))]

\* the dictionary simulate_year_with_tracking returns; success_rate is the
\* rational num / den
tracking_return_value(t) ==
  [soc_history |-> t.soc_history,
   fcr_power_history |-> t.fcr_power_history,
   success_history |-> t.success_history,
   available_history |-> t.available_history,
   soc_ok_history |-> t.soc_ok_history,
   success_rate |-> [num |-> t.success_count, den |-> N_SLOTS_YEAR]]

\* -------------------------------------------------- find_min_assets_annual
installed_capacity(n) == n * POWER_MEAN

\* the candidate sizes range(n_min, n_max + 1, step) visits, in order
RECURSIVE ScanRange(_, _, _)
ScanRange(lo, hi, st) ==
  IF lo > hi THEN <<>> ELSE <<lo>> \o ScanRange(lo + st, hi, st)

\* prob >= confidence_target, with prob = successes_ / n_trials and the target
\* in percent
clears_target_Strict(successes_, n_trials, target) == successes_ * 100 > target * n_trials

clears_target(successes_, n_trials, target) == successes_ * 100 >= target * n_trials

\* diagnostic_slot(n): np.min / np.max of the empty SOC vector raise ValueError
diagnostic_slot_raises(n) == n = 0

NoResult == [found |-> FALSE, n_assets |-> 0, capacity |-> 0,
             oversizing |-> [num |-> 0, den |-> 1], prob |-> [num |-> 0, den |-> 1]]

\* the tuple (n_assets, capacity, oversizing, prob) find_min_assets_annual returns
result_tuple(n, successes_, n_trials) ==
  [found |-> TRUE, n_assets |-> n, capacity |-> installed_capacity(n),
   oversizing |-> [num |-> installed_capacity(n), den |-> REQUIRED_POWER],
   prob |-> [num |-> successes_, den |-> n_trials]]

\* ------------------------------------------------------------------ state
VARIABLES
  pc,                \* position of the running call
  confidence_target, \* find_min_assets_annual argument (percent)
  n_min, n_max, step,\* find_min_assets_annual arguments
  n_assets,          \* portfolio size being simulated
  trial,             \* annual_success_probability: trials finished
  successes,         \* annual_success_probability: successes
  trial_log,         \* the success count of each finished trial
  scan_log,          \* per evaluated candidate: size and estimate
  result,            \* what find_min_assets_annual returned
  socs,              \* simulate_year: socs
  success_count,     \* simulate_year: success_count
  slot,              \* slots processed in the running year
  flag_log,          \* simulate_year: the success flag of each slot so far
  year_return,       \* what simulate_year returned
  tracking,          \* simulate_year_with_tracking: its locals
  tracking_return,   \* what simulate_year_with_tracking returned
  last_slot,         \* the last simulate_fcr_slot call: SOC read and outcome
  call               \* the last update_soc call: arguments and result

vars == <<pc, confidence_target, n_min, n_max, step, n_assets, trial, successes,
          trial_log, scan_log, result, socs, success_count, slot, flag_log,
          year_return, tracking, tracking_return, last_slot, call>>

searchVars == <<confidence_target, n_min, n_max, step, trial, successes,
                trial_log, scan_log, result>>
pairVars == <<flag_log, year_return, tracking, tracking_return, last_slot, call>>

NoCall == [done |-> FALSE, socs |-> <<>>, powers |-> <<>>, mask |-> <<>>, out |-> <<>>]
NoSlot == [seen |-> FALSE, socs |-> <<>>, success |-> FALSE, can_provide_fcr |-> <<>>,
           available_for_fcr |-> <<>>, powers |-> <<>>]
NoTracking == tracking_start(<<>>)
NoTrackingReturn == [returned |-> FALSE, value |-> tracking_return_value(NoTracking)]

\* =========================================================================
\* Spec: one call of find_min_assets_annual, down to the slot loop
\* =========================================================================
TargetDraws == {50, 95}

Init ==
  /\ pc = "find_min_assets_annual"
  /\ confidence_target \in TargetDraws
  /\ n_min \in 0..MaxNMin
  /\ n_max \in PortfolioSizes
  /\ step \in 1..MaxStep
  /\ n_assets = 0
  /\ trial = 0
  /\ successes = 0
  /\ trial_log = <<>>
  /\ scan_log = <<>>
  /\ result = NoResult
  /\ socs = <<>>
  /\ success_count = 0
  /\ slot = 0
  /\ flag_log = <<>>
  /\ year_return = FALSE
  /\ tracking = NoTracking
  /\ tracking_return = NoTrackingReturn
  /\ last_slot = NoSlot
  /\ call = NoCall

\* lines 532-537: the diagnostic on n_min, then the scan starts at n_min
Diagnostic ==
  /\ pc = "find_min_assets_annual"
  /\ IF diagnostic_slot_raises(n_min)
       THEN pc' = "raised" /\ UNCHANGED n_assets
       ELSE pc' = "scan" /\ n_assets' = n_min
  /\ UNCHANGED <<searchVars, socs, success_count, slot, pairVars>>

\* line 537-538 and 211: the next candidate enters annual_success_probability
ScanCandidate ==
  /\ pc = "scan"
  /\ n_assets <= n_max
  /\ pc' = "trials"
  /\ trial' = 0
  /\ successes' = 0
  /\ trial_log' = <<>>
  /\ UNCHANGED <<confidence_target, n_min, n_max, step, scan_log, result, n_assets,
                 socs, success_count, slot, pairVars>>

\* lines 560-562: the range is exhausted, None is returned
ScanExhausted ==
  /\ pc = "scan"
  /\ n_assets > n_max
  /\ pc' = "returned"
  /\ result' = NoResult
  /\ UNCHANGED <<confidence_target, n_min, n_max, step, trial, successes, trial_log,
                 scan_log, n_assets, socs, success_count, slot, pairVars>>

\* lines 212-213 and 178-183: a trial starts simulate_year on a fresh SOC draw
TrialStart ==
  /\ pc = "trials"
  /\ trial < N_TRIALS
  /\ \E raw_socs \in Vectors(n_assets, RawSocDraws) :
       socs' = initial_socs(raw_socs)
  /\ success_count' = 0
  /\ slot' = 0
  /\ pc' = "year"
  /\ UNCHANGED <<confidence_target, n_min, n_max, step, trial, successes, trial_log,
                 scan_log, result, n_assets, pairVars>>

\* lines 185-191: one slot of simulate_year
YearSlot ==
  /\ pc = "year"
  /\ slot < N_SLOTS_YEAR
  /\ \E raw_powers \in Vectors(n_assets, RawPowerDraws),
        uniforms \in Vectors(n_assets, UniformDraws) :
       LET s == year_step(socs, success_count, raw_powers, uniforms)
       IN /\ socs' = s.socs
          /\ success_count' = s.success_count
  /\ slot' = slot + 1
  /\ UNCHANGED <<pc, confidence_target, n_min, n_max, step, trial, successes, trial_log,
                 scan_log, result, n_assets, pairVars>>

\* lines 193 and 213-214: simulate_year returns, the trial is counted
YearReturn ==
  /\ pc = "year"
  /\ slot = N_SLOTS_YEAR
  /\ successes' = IF year_return_value(success_count) THEN successes + 1 ELSE successes
  /\ trial' = trial + 1
  /\ trial_log' = Append(trial_log, success_count)
  /\ pc' = "trials"
  /\ UNCHANGED <<confidence_target, n_min, n_max, step, scan_log, result,
                 n_assets, socs, success_count, slot, pairVars>>

\* lines 215 and 539-558: the estimate is returned and compared with the target
EstimateReturn ==
  /\ pc = "trials"
  /\ trial = N_TRIALS
  /\ scan_log' = Append(scan_log, [n_assets |-> n_assets,
                                   prob |-> [num |-> successes, den |-> N_TRIALS]])
  /\ IF clears_target(successes, N_TRIALS, confidence_target)
       THEN /\ result' = result_tuple(n_assets, successes, N_TRIALS)
            /\ pc' = "returned"
            /\ UNCHANGED n_assets
       ELSE /\ n_assets' = n_assets + step
            /\ pc' = "scan"
            /\ UNCHANGED result
  /\ UNCHANGED <<confidence_target, n_min, n_max, step, trial, successes, trial_log,
                 socs, success_count, slot, pairVars>>

Next ==
  \/ Diagnostic
  \/ ScanCandidate
  \/ ScanExhausted
  \/ TrialStart
  \/ YearSlot
  \/ YearReturn
  \/ EstimateReturn

Spec == Init /\ [][Next]_vars

\* =========================================================================
\* SpecYear: the two year simulators run side by side on the same random
\* draws, and update_soc called on its own on arbitrary arguments
\* =========================================================================
\* SOC values update_soc is called with on its own (0.1 kWh)
CallSocs == {-50, 0, 5, 6000}
CallPowers == {20, 100}

CallInputs ==
  UNION {[done : {FALSE}, socs : Vectors(n, CallSocs), powers : Vectors(n, CallPowers),
          mask : Vectors(n, BOOLEAN), out : {<<>>}] : n \in PortfolioSizes \ {0}}

InitYear ==
  /\ pc = "idle"
  /\ call \in {NoCall} \cup CallInputs
  /\ confidence_target = 0
  /\ n_min = 0
  /\ n_max = 0
  /\ step = 1
  /\ n_assets = 0
  /\ trial = 0
  /\ successes = 0
  /\ trial_log = <<>>
  /\ scan_log = <<>>
  /\ result = NoResult
  /\ socs = <<>>
  /\ success_count = 0
  /\ slot = 0
  /\ flag_log = <<>>
  /\ year_return = FALSE
  /\ tracking = NoTracking
  /\ tracking_return = NoTrackingReturn
  /\ last_slot = NoSlot

\* update_soc(socs, powers, mask) called on the arguments drawn
UpdateCall ==
  /\ pc = "idle"
  /\ call # NoCall
  /\ ~call.done
  /\ call' = [call EXCEPT !.done = TRUE, !.out = update_soc(call.socs, call.powers, call.mask)]
  /\ UNCHANGED <<pc, searchVars, n_assets, socs, success_count, slot, flag_log,
                 year_return, tracking, tracking_return, last_slot>>

\* lines 131-143 and 178-183: both simulators start from the same SOC draw
PairStart ==
  /\ pc = "idle"
  /\ call = NoCall
  /\ \E n \in PortfolioSizes :
       /\ n_assets' = n
       /\ \E raw_socs \in Vectors(n, RawSocDraws) :
            /\ socs' = initial_socs(raw_socs)
            /\ tracking' = tracking_start(initial_socs(raw_socs))
  /\ success_count' = 0
  /\ slot' = 0
  /\ pc' = "pair"
  /\ UNCHANGED <<searchVars, flag_log, year_return, tracking_return, last_slot, call>>

\* lines 146-160 and 185-191: one slot of each simulator, on the same draws
PairSlot ==
  /\ pc = "pair"
  /\ slot < N_SLOTS_YEAR
  /\ \E raw_powers \in Vectors(n_assets, RawPowerDraws),
        uniforms \in Vectors(n_assets, UniformDraws) :
       LET r == simulate_fcr_slot(socs, raw_powers, uniforms)
           s == year_step(socs, success_count, raw_powers, uniforms)
       IN /\ socs' = s.socs
          /\ success_count' = s.success_count
          /\ flag_log' = Append(flag_log, r.success)
          /\ tracking' = tracking_step(tracking, raw_powers, uniforms)
          /\ last_slot' = [seen |-> TRUE, socs |-> socs, success |-> r.success,
                           can_provide_fcr |-> r.can_provide_fcr,
                           available_for_fcr |-> r.available_for_fcr,
                           powers |-> r.powers]
          /\ call' = [done |-> TRUE, socs |-> socs, powers |-> r.powers,
                      mask |-> r.can_provide_fcr,
                      out |-> update_soc(socs, r.powers, r.can_provide_fcr)]
  /\ slot' = slot + 1
  /\ UNCHANGED <<pc, searchVars, n_assets, year_return, tracking_return>>

\* lines 162-169 and 193: both simulators return
PairReturn ==
  /\ pc = "pair"
  /\ slot = N_SLOTS_YEAR
  /\ year_return' = year_return_value(success_count)
  /\ tracking_return' = [returned |-> TRUE, value |-> tracking_return_value(tracking)]
  /\ pc' = "pair_returned"
  /\ UNCHANGED <<searchVars, n_assets, socs, success_count, slot, flag_log, tracking,
                 last_slot, call>>

NextYear ==
  \/ UpdateCall
  \/ PairStart
  \/ PairSlot
  \/ PairReturn

SpecYear == InitYear /\ [][NextYear]_vars

\* =========================================================================
\* Properties of find_min_assets_annual and annual_success_probability (Spec)
\* =========================================================================
\* a logged estimate num / den is >= the confidence target (percent)
AtLeastTarget(prob) == prob.num * 100 >= confidence_target * prob.den

\* the call has ended, by a return or by an exception
Ended == pc \in {"returned", "raised"}

\* C1: when find_min_assets_annual returns a tuple, the sizes evaluated are
\* n_min, n_min + step, ... in that order, the returned size is the last one
\* evaluated and the first whose estimate is >= the target, every size before
\* it had an estimate below the target, the returned probability is the
\* estimate of that size, and nothing is evaluated after it.
C1_FirstClearingCandidate ==
  result.found =>
    LET k == Len(scan_log)
    IN /\ pc = "returned"
       /\ k >= 1
       /\ \A i \in 1..k : scan_log[i].n_assets = n_min + (i - 1) * step
       /\ \A i \in 1..(k - 1) : ~AtLeastTarget(scan_log[i].prob)
       /\ AtLeastTarget(scan_log[k].prob)
       /\ result.n_assets = scan_log[k].n_assets
       /\ result.prob = scan_log[k].prob
       /\ result.n_assets <= n_max

\* a tuple is returned after at least one smaller candidate missed the
\* target, at an estimate exactly equal to the target
C1_Witness ==
  /\ result.found
  /\ Len(scan_log) >= 2
  /\ result.prob.num * 100 = confidence_target * result.prob.den

\* C2: the call ends by returning None exactly when no candidate of the range
\* has an estimate >= the target; then every candidate of the range was
\* evaluated exactly once, in order, and no size above n_max was evaluated.
C2_NoneExactlyWhenNoneClears ==
  Ended =>
    /\ (pc = "returned" /\ ~result.found)
         <=> (\A i \in 1..Len(scan_log) : ~AtLeastTarget(scan_log[i].prob))
    /\ (pc = "returned" /\ ~result.found) =>
         /\ [i \in 1..Len(scan_log) |-> scan_log[i].n_assets]
              = ScanRange(n_min, n_max, step)
         /\ \A i \in 1..Len(scan_log) : scan_log[i].n_assets <= n_max

\* C3: annual_success_probability runs exactly N_TRIALS trials, each from a
\* fresh SOC draw and a zero success count, and returns k / N_TRIALS with k
\* the number of trials whose success fraction is >= MIN_SUCCESS_RATE.
TrialsMeetingRate ==
  {i \in 1..Len(trial_log) : trial_log[i] * 100 >= MIN_SUCCESS_RATE * N_SLOTS_YEAR}

FreshSocs(n) == {initial_socs(raw) : raw \in Vectors(n, RawSocDraws)}

C3_EstimateIsFractionOfTrials ==
  /\ Len(trial_log) = trial
  /\ trial <= N_TRIALS
  /\ (pc = "year" /\ slot = 0) => (socs \in FreshSocs(n_assets) /\ success_count = 0)
  /\ (pc \in {"scan", "returned"} /\ scan_log # <<>>) =>
       LET prob == scan_log[Len(scan_log)].prob
       IN /\ trial = N_TRIALS
          /\ prob.den = N_TRIALS
          /\ prob.num = Cardinality(TrialsMeetingRate)
          /\ 0 <= prob.num /\ prob.num <= prob.den

\* an estimate of 1/2 is returned: one trial met the rate, the other, which
\* had successful slots too, did not
C3_Witness ==
  /\ pc \in {"scan", "returned"}
  /\ scan_log # <<>>
  /\ scan_log[Len(scan_log)].prob.num = 1
  /\ \E i \in 1..Len(trial_log) : trial_log[i] >= 1 /\ i \notin TrialsMeetingRate

\* =========================================================================
\* Properties of the year simulators, the slot simulator and update_soc
\* (SpecYear)
\* =========================================================================
\* number of true flags of a flag sequence
NumTrue(flags) == Cardinality({i \in 1..Len(flags) : flags[i]})

\* a Python bool compared with a number: True == 1, False == 0
AsNumber(b) == IF b THEN 1 ELSE 0

InPair == pc \in {"pair", "pair_returned"}

\* C4 as stated: simulate_year returns the fraction
\* (number of successful slots) / N_SLOTS_YEAR.
C4_ReturnsFraction ==
  pc = "pair_returned" => AsNumber(year_return) * N_SLOTS_YEAR = NumTrue(flag_log)

\* C4: simulate_year returns only a boolean, whether the fraction of slots
\* whose success flag was true is >= MIN_SUCCESS_RATE.
C4_ReturnsRateVerdict ==
  pc = "pair_returned" =>
    /\ Len(flag_log) = N_SLOTS_YEAR
    /\ year_return \in BOOLEAN
    /\ year_return <=> (NumTrue(flag_log) * 100 >= MIN_SUCCESS_RATE * N_SLOTS_YEAR)

\* a year with some, but not all, slots successful returns False
C4_Witness ==
  /\ pc = "pair_returned"
  /\ NumTrue(flag_log) >= 1
  /\ NumTrue(flag_log) < N_SLOTS_YEAR
  /\ year_return = FALSE

C6_CanProvideIffAvailableAndEnough ==
  last_slot.seen =>
    \A i \in DOMAIN last_slot.socs :
      /\ last_slot.can_provide_fcr[i] <=>
           (/\ last_slot.available_for_fcr[i]
            /\ last_slot.socs[i] >= last_slot.powers[i] * ENERGY_HOURS * 10)
      /\ last_slot.can_provide_fcr[i] => last_slot.available_for_fcr[i]

\* an available asset whose SOC equals its requirement exactly provides,
\* next to an asset with enough SOC that is not available
C6_Witness ==
  /\ last_slot.seen
  /\ \E i, j \in DOMAIN last_slot.socs :
       /\ last_slot.socs[i] = last_slot.powers[i] * ENERGY_HOURS * 10
       /\ last_slot.can_provide_fcr[i]
       /\ ~last_slot.available_for_fcr[j]
       /\ last_slot.socs[j] >= last_slot.powers[j] * ENERGY_HOURS * 10
       /\ ~last_slot.can_provide_fcr[j]

RECURSIVE DeliverablePower(_, _)
\* the power of assets 1..n of a slot that are available and hold enough
\* energy; every other asset counts for nothing
DeliverablePower(ls, n) ==
  IF n = 0 THEN 0
  ELSE DeliverablePower(ls, n - 1)
         + (IF /\ ls.available_for_fcr[n]
               /\ ls.socs[n] >= ls.powers[n] * ENERGY_HOURS * 10
              THEN ls.powers[n] ELSE 0)

\* C7: the success flag of a slot is true iff the drawn powers of exactly the
\* assets that can provide FCR sum to >= REQUIRED_POWER.
C7_SuccessIffPowerReached ==
  last_slot.seen =>
    (last_slot.success <=>
       DeliverablePower(last_slot, Len(last_slot.socs)) >= REQUIRED_POWER)

\* a slot succeeds on a sum exactly equal to REQUIRED_POWER while one asset
\* contributes nothing
C7_Witness ==
  /\ last_slot.seen
  /\ last_slot.success
  /\ DeliverablePower(last_slot, Len(last_slot.socs)) = REQUIRED_POWER
  /\ \E i \in DOMAIN last_slot.socs : ~last_slot.can_provide_fcr[i]

NonNegative(v) == \A i \in DOMAIN v : v[i] >= 0

\* C8: SOC is never negative: the result of every update_soc call is >= 0
\* elementwise, and so is every SOC vector of a year rollout, in both
\* simulators and in every recorded row.
C8_SocNeverNegative ==
  /\ call.done => NonNegative(call.out)
  /\ NonNegative(socs)
  /\ NonNegative(tracking.socs)
  /\ \A j \in 1..Len(tracking.soc_history) : NonNegative(tracking.soc_history[j])

\* update_soc was called where the variation leads below zero and returned 0
C8_Witness ==
  /\ call.done
  /\ \E i \in DOMAIN call.socs :
       /\ call.mask[i]
       /\ call.socs[i] - DegradeDelta < 0
       /\ call.out[i] = 0

\* C9 as stated: on a SOC vector >= 0, a used asset ends strictly lower (or
\* stays at zero), an unused asset ends strictly higher, and the change of an
\* asset depends neither on its power nor on its own SOC.
C9_ChangeIndependentOfSoc ==
  (call.done /\ NonNegative(call.socs)) =>
    /\ \A i \in DOMAIN call.socs :
         /\ call.mask[i] =>
              \/ call.out[i] < call.socs[i]
              \/ (call.out[i] = 0 /\ call.socs[i] = 0)
         /\ ~call.mask[i] => call.out[i] > call.socs[i]
    /\ \A i, j \in DOMAIN call.socs :
         call.mask[i] = call.mask[j] =>
           call.out[i] - call.socs[i] = call.out[j] - call.socs[j]

\* C9: on a SOC vector >= 0, a used asset ends strictly lower (or stays at
\* zero), an unused asset ends strictly higher; the change does not depend on
\* the powers, and depends on the asset's own SOC only through the zero
\* floor: a used asset changes by -min(SOC, 1.2 kWh), an unused one by
\* +3.8 kWh.
C9_ChangeFixedUpToFloor ==
  (call.done /\ NonNegative(call.socs)) =>
    \A i \in DOMAIN call.socs :
      /\ call.mask[i] =>
           /\ \/ call.out[i] < call.socs[i]
              \/ (call.out[i] = 0 /\ call.socs[i] = 0)
           /\ call.out[i] - call.socs[i]
                = -(IF call.socs[i] < DegradeDelta THEN call.socs[i] ELSE DegradeDelta)
      /\ ~call.mask[i] =>
           /\ call.out[i] > call.socs[i]
           /\ call.out[i] - call.socs[i] = RechargeDelta

\* two used assets of one call, one below the decrement and one above it,
\* with different powers
C9_Witness ==
  /\ call.done
  /\ NonNegative(call.socs)
  /\ \E i, j \in DOMAIN call.socs :
       /\ call.mask[i] /\ call.mask[j]
       /\ call.socs[i] > 0 /\ call.socs[i] < DegradeDelta
       /\ call.socs[j] >= DegradeDelta
       /\ call.powers[i] # call.powers[j]

\* the shape of the histories of simulate_year_with_tracking after `slot` slots
C10_Shape ==
  InPair =>
    /\ Len(tracking.soc_history) = slot + 1
    /\ \A j \in 1..Len(tracking.soc_history) :
         DOMAIN tracking.soc_history[j] = 1..n_assets
    /\ tracking.soc_history[1] \in FreshSocs(n_assets)
    /\ tracking.soc_history[slot + 1] = tracking.socs
    /\ Len(tracking.fcr_power_history) = slot
    /\ Len(tracking.success_history) = slot
    /\ Len(tracking.available_history) = slot
    /\ Len(tracking.soc_ok_history) = slot
    /\ pc = "pair_returned" =>
         /\ tracking_return.returned
         /\ tracking_return.value.soc_history = tracking.soc_history
         /\ Len(tracking_return.value.soc_history) = N_SLOTS_YEAR + 1
         /\ tracking_return.value.success_rate
              = [num |-> NumTrue(tracking_return.value.success_history),
                 den |-> N_SLOTS_YEAR]

\* a step of a running year keeps every row already recorded
C10_RowsKept ==
  pc = "pair" =>
    \A j \in 1..Len(tracking.soc_history) :
      /\ Len(tracking'.soc_history) >= j
      /\ tracking'.soc_history[j] = tracking.soc_history[j]

\* C10: after k slots the SOC history of simulate_year_with_tracking holds
\* k + 1 rows of n_assets columns (the initial draw, then the SOC after each
\* slot) and every other history k entries; the returned trajectory has
\* N_SLOTS_YEAR + 1 rows, no recorded row is altered by a later slot, and
\* success_rate is the number of true success flags over N_SLOTS_YEAR.
C10_HistoryShape == [](C10_Shape) /\ [][C10_RowsKept]_vars

\* a full year of two assets was returned, with rows that differ
C10_Witness ==
  /\ pc = "pair_returned"
  /\ n_assets = 2
  /\ Len(tracking_return.value.soc_history) = N_SLOTS_YEAR + 1
  /\ tracking_return.value.soc_history[1] # tracking_return.value.soc_history[2]
  /\ NumTrue(tracking_return.value.success_history) = 1

\* =========================================================================
\* Portfolio of size 0 (Spec)
\* =========================================================================
\* C11: a portfolio size of 0 is guarded in every core operation: no call
\* ends in an empty-collection or division error; with n_min = 0 the search
\* completes, a year of size 0 has no successful slot and the size-0
\* candidate is reported as failing.
C11_SizeZeroGuarded ==
  /\ pc # "raised"
  /\ (pc = "year" /\ n_assets = 0) => success_count = 0
  /\ (Ended /\ n_min = 0 /\ n_min <= n_max) =>
       /\ scan_log # <<>>
       /\ scan_log[1].n_assets = 0
       /\ scan_log[1].prob.num = 0

\* =========================================================================
\* Slot-to-slot SOC transition and the soc-ok history (SpecYear)
\* =========================================================================
\* asset i of the last slot was available and held enough energy at the
\* start of the slot
CouldDeliver(ls, i) ==
  ls.available_for_fcr[i] /\ ls.socs[i] >= ls.powers[i] * ENERGY_HOURS * 10

\* C12: in every slot of a rollout, in both simulators, the slot reads the
\* SOC vector left by the previous slot, and each asset's SOC after the slot
\* is its SOC before minus exactly SOC_DEGRADATION_PER_USE * SOC_MEAN if it
\* could deliver, plus exactly SOC_RECHARGE_RATE * SOC_MEAN otherwise; the
\* zero floor never truncates the change, a delivering asset holding at
\* least POWER_FLOOR * ENERGY_HOURS, which exceeds the decrement.
C12_SlotTransition ==
  (InPair /\ last_slot.seen) =>
    /\ slot >= 1
    /\ last_slot.socs = tracking.soc_history[slot]
    /\ tracking.soc_history[slot + 1] = tracking.socs
    /\ \A i \in 1..n_assets :
         LET before == last_slot.socs[i]
             change == IF CouldDeliver(last_slot, i) THEN -DegradeDelta ELSE RechargeDelta
         IN /\ socs[i] = before + change
            /\ tracking.socs[i] = before + change
            /\ before + change >= 0
            /\ CouldDeliver(last_slot, i) =>
                 /\ before >= POWER_FLOOR * ENERGY_HOURS * 10
                 /\ POWER_FLOOR * ENERGY_HOURS * 10 > DegradeDelta

\* in the second slot of a year one asset delivers and is discharged while
\* another is available, short of energy, and recharged
C12_Witness ==
  /\ InPair
  /\ last_slot.seen
  /\ slot = 2
  /\ \E i, j \in 1..n_assets :
       /\ CouldDeliver(last_slot, i)
       /\ socs[i] = last_slot.socs[i] - DegradeDelta
       /\ last_slot.available_for_fcr[j]
       /\ ~CouldDeliver(last_slot, j)
       /\ socs[j] = last_slot.socs[j] + RechargeDelta

\* number of assets the last slot judged to hold enough energy, on the SOC
\* at the start of the slot
JudgedSufficient(ls) ==
  Cardinality({i \in DOMAIN ls.socs : ls.socs[i] >= ls.powers[i] * ENERGY_HOURS * 10})

\* C13: the soc-ok count recorded for a slot is the number of assets the slot
\* simulator judged to have enough energy in that slot; so the number of
\* assets that could deliver is at most the recorded soc-ok count and at
\* most the recorded available count.
C13_SocOkCountsSlotJudgement ==
  (InPair /\ last_slot.seen) =>
    /\ tracking.soc_ok_history[slot] = JudgedSufficient(last_slot)
    /\ CountTrue(last_slot.can_provide_fcr) <= tracking.soc_ok_history[slot]
    /\ CountTrue(last_slot.can_provide_fcr) <= tracking.available_history[slot]
====
